---- MODULE Spec2Model ----
(***************************************************************************)
(* A model of @kanzen/result's asynchronous outcome algebra: ResultAsync,  *)
(* its operators, its terminal operations and the safeTry adapter, on top  *)
(* of a model of the host's promises (a heap of promises, their reactions  *)
(* and the FIFO microtask queue).                                          *)
(*                                                                         *)
(* JavaScript values are encoded as sequences of integers so that values   *)
(* of every shape compare with each other: the head is the shape, the rest *)
(* is the content (a number, a nested value, a heap index).                *)
(***************************************************************************)
EXTENDS Integers, Sequences, FiniteSets, TLC

VARIABLES
    heap,       \* the promises: state, value, registered reactions
    jobs,       \* the microtask queue
    objs,       \* the ResultAsync instances: their _promise, and where they come from
    calls,      \* every invocation of a caller-supplied function, in order
    adapters,   \* the callables safeTry has returned
    invs,       \* every call of an adapted callable, and how it came back
    terms,      \* every terminal operation called, and the promise it returned
    responses,  \* the SafeResponse instances, each around a host Response
    inScript    \* TRUE while the consumer's synchronous code is running

vars == <<heap, jobs, objs, calls, adapters, invs, terms, responses, inScript>>

-----------------------------------------------------------------------------
(* Bounds of the model *)

MaxArgs == 2
MaxOps == 3
MaxChain == 2

-----------------------------------------------------------------------------
(* Values *)

Prim(n) == <<0, n>>
okSync(x) == <<1>> \o x
errSync(x) == <<2>> \o x
PromiseRef(p) == <<3, p>>
RARef(o) == <<4, o>>
Undefined == <<5>>
Wrapped(f) == <<6>> \o f
Bool(b) == <<7, IF b THEN 1 ELSE 0>>
Response(status) == <<8, status>>
SafeResponseRef(s) == <<9, s>>
\* what the host raises when something that is not a function is called
TypeError == Prim(6)

IsPrim(x) == Head(x) = 0
IsResult(x) == Head(x) \in {1, 2}
IsPromise(x) == Head(x) = 3
IsResultAsync(x) == Head(x) = 4
\* a value with a callable `then`: a promise, or a ResultAsync (PromiseLike)
IsThenable(x) == IsPromise(x) \/ IsResultAsync(x)
Num(x) == x[Len(x)]

Payloads == {Prim(1), Prim(10)}
Errors == {Prim(3), Prim(4)}
Faults == {Prim(7), Prim(8)}

-----------------------------------------------------------------------------
(* Result (synchronous): the two variants and their methods *)

ResIsOk(res) == Head(res) = 1
ResIsErr(res) == Head(res) = 2
ResPayload(res) == Tail(res)

-----------------------------------------------------------------------------
(* Caller-supplied functions.  A function is described by what its body    *)
(* computes from its argument (body), by the variant of the outcome it     *)
(* builds from that (tag; "" for a function returning a plain value), and  *)
(* by the shape in which it hands the outcome back (shape).                *)

NoFn == [body |-> "none", tag |-> "", shape |-> ""]

\* A function the consumer passes to an operator is an arbitrary function: what
\* it computes, and in which shape it hands it back, is drawn when it is called.
AnyFn == [body |-> "any", tag |-> "", shape |-> ""]

BodyValue(body, arg) ==
    CASE body = "dbl" -> Prim(Num(arg) * 2)
      [] body = "add5" -> Prim(Num(arg) + 5)
      [] body = "e2" -> Prim(9)
      [] body = "wrap" -> Wrapped(arg)
      [] OTHER -> arg

-----------------------------------------------------------------------------
(* The host's promises *)

NoHandler == [site |-> "none", fn |-> NoFn, fn2 |-> NoFn, o |-> 0, p |-> 0, x |-> Undefined]
Handler(site, fn, o) == [NoHandler EXCEPT !.site = site, !.fn = fn, !.o = o]
ResolveFn(p) == [NoHandler EXCEPT !.site = "resolveFn", !.p = p]
RejectFn(p) == [NoHandler EXCEPT !.site = "rejectFn", !.p = p]

Machine == [heap |-> heap, jobs |-> jobs, objs |-> objs, calls |-> calls]

NextPromise(m) == Len(m.heap) + 1
NextObj(m) == Len(m.objs) + 1

NewPromise(m, st, val) ==
    [m EXCEPT !.heap = Append(@, [st |-> st, val |-> val, rs |-> <<>>])]

ReactionJob(r, st, val) ==
    [kind |-> "reaction", h |-> IF st = "fulfilled" THEN r.onF ELSE r.onR,
     how |-> st, arg |-> val, to |-> r.to]

ThenableJob(p, x) ==
    [kind |-> "thenable", h |-> NoHandler, how |-> "", arg |-> x, to |-> p]

\* FulfillPromise / RejectPromise: a pending promise settles once, and its
\* reactions are queued in the order they were registered.
Settle(m, p, st, val) ==
    IF p = 0 \/ m.heap[p].st # "pending" THEN m
    ELSE [m EXCEPT !.heap[p] = [st |-> st, val |-> val, rs |-> <<>>],
                   !.jobs = @ \o [i \in 1..Len(m.heap[p].rs) |->
                                    ReactionJob(m.heap[p].rs[i], st, val)]]

\* a promise's resolve function: a thenable is adopted in a later job
ResolvePromise(m, p, x) ==
    IF p = 0 THEN m
    ELSE IF IsThenable(x) THEN [m EXCEPT !.jobs = Append(@, ThenableJob(p, x))]
    ELSE Settle(m, p, "fulfilled", x)

\* PerformPromiseThen on promise p with the derived promise d (0: none)
PerformThen(m, p, onF, onR, d) ==
    LET r == [onF |-> onF, onR |-> onR, to |-> d]
    IN  IF m.heap[p].st = "pending"
        THEN [m EXCEPT !.heap[p].rs = Append(@, r)]
        ELSE [m EXCEPT !.jobs = Append(@, ReactionJob(r, m.heap[p].st, m.heap[p].val))]

\* promise.then(onF, onR): the derived promise is NextPromise(m)
PromiseThen(m, p, onF, onR) ==
    PerformThen(NewPromise(m, "pending", Undefined), p, onF, onR, NextPromise(m))

\* Promise.resolve(x) for a value that is not a thenable
PromiseResolve(m, x) == NewPromise(m, "fulfilled", x)

-----------------------------------------------------------------------------
(* What a call gives back: the machine after it, and either the value it   *)
(* returned or the fault it raised.                                        *)

Ret(m, x) == [m |-> m, threw |-> FALSE, ret |-> x]
Throw(m, x) == [m |-> m, threw |-> TRUE, ret |-> x]

Logged(m, site, fn, arg, by) ==
    [m EXCEPT !.calls = Append(@, [site |-> site, fn |-> fn, arg |-> arg, by |-> by])]

-----------------------------------------------------------------------------
(* ResultAsync: construction *)

\* (mutant) a constructor that also hands the new promise to the receiver
NewResultAsync_sharesHandle(m, p, op, parent) ==
    LET m1 == [m EXCEPT !.objs = Append(@, [promise |-> p, op |-> op, parent |-> parent, held |-> TRUE])]
    IN  IF parent = 0 THEN m1 ELSE [m1 EXCEPT !.objs[parent].promise = p]

\* new ResultAsync(_promise)
NewResultAsync(m, p, op, parent) ==
    [m EXCEPT !.objs = Append(@, [promise |-> p, op |-> op, parent |-> parent, held |-> TRUE])]

toAsync(m, result) ==
    NewResultAsync(PromiseResolve(m, result), NextPromise(m), "toAsync", 0)

ok(m, okValue) ==
    NewResultAsync(PromiseResolve(m, okSync(okValue)), NextPromise(m), "ok", 0)

err(m, errorValue) ==
    NewResultAsync(PromiseResolve(m, errSync(errorValue)), NextPromise(m), "err", 0)

\* an async function whose body returns x: its promise is resolved with x
AsyncReturn(m, x) ==
    ResolvePromise(NewPromise(m, "pending", Undefined), NextPromise(m), x)

-----------------------------------------------------------------------------
(* Invoking a caller-supplied function *)

\* the object a function built inside a callback is not in the consumer's hands
Unheld(m, o) == [m EXCEPT !.objs[o].held = FALSE]

\* hand the outcome X back in the function's shape
Deliver(m, shape, X) ==
    CASE shape = "result" -> Ret(m, X)
      [] shape = "promise" -> Ret(PromiseResolve(m, X), PromiseRef(NextPromise(m)))
      [] shape = "resultAsync" -> Ret(Unheld(toAsync(m, X), NextObj(m)), RARef(NextObj(m)))
      [] shape = "async" ->
            LET m1 == Unheld(toAsync(m, X), NextObj(m))
            IN  Ret(AsyncReturn(m1, RARef(NextObj(m))), PromiseRef(NextPromise(m1)))
      \* a promise that is rejected: Promise.reject(fault)
      [] shape = "rejected" -> Ret(NewPromise(m, "rejected", Prim(8)), PromiseRef(NextPromise(m)))
      \* a promise, or a ResultAsync around one, that settles with X later
      [] shape = "later" -> Ret(NewPromise(m, "pending", X), PromiseRef(NextPromise(m)))
      [] shape = "laterAsync" ->
            LET m1 == NewPromise(m, "pending", X)
            IN  Ret(Unheld(NewResultAsync(m1, NextPromise(m), "new", 0), NextObj(m1)),
                    RARef(NextObj(m1)))
      [] OTHER -> Ret(m, X)

CallFn(m, site, fn, arg, by) ==
    LET m1 == Logged(m, site, fn, arg, by)
        v == BodyValue(fn.body, arg)
    IN  CASE fn.body = "raise" -> Throw(m1, Prim(7))
          [] fn.tag = "ok" -> Deliver(m1, fn.shape, okSync(v))
          [] fn.tag = "err" -> Deliver(m1, fn.shape, errSync(v))
          [] OTHER -> Ret(m1, v)

-----------------------------------------------------------------------------
(* Result (synchronous): methods *)

ResMatch(res, OkBranch(_), ErrBranch(_)) ==
    IF ResIsOk(res) THEN OkBranch(ResPayload(res)) ELSE ErrBranch(ResPayload(res))

ResUnwrap(m, res) ==
    IF ResIsOk(res) THEN Ret(m, ResPayload(res)) ELSE Throw(m, ResPayload(res))

ResUnwrapOr(m, res, value) ==
    IF ResIsOk(res) THEN Ret(m, ResPayload(res)) ELSE Ret(m, value)

\* map(fn): Ok(fn(value)) on Ok, the receiver on Err
ResMap(m, fn, o, res) ==
    IF ResIsOk(res)
    THEN LET r == CallFn(m, "map", fn, ResPayload(res), o)
         IN  IF r.threw THEN r ELSE Ret(r.m, okSync(r.ret))
    ELSE Ret(m, res)

\* mapErr(fn): Err(fn(error)) on Err, the receiver on Ok
ResMapErr(m, fn, o, res) ==
    IF ResIsErr(res)
    THEN LET r == CallFn(m, "mapErr", fn, ResPayload(res), o)
         IN  IF r.threw THEN r ELSE Ret(r.m, errSync(r.ret))
    ELSE Ret(m, res)

\* andTee(fn): fn(value) for its effect on Ok; the receiver in either case
ResAndTee(m, fn, o, res) ==
    IF ResIsOk(res)
    THEN LET r == CallFn(m, "andTee", fn, ResPayload(res), o)
         IN  IF r.threw THEN r ELSE Ret(r.m, res)
    ELSE Ret(m, res)

\* orTee(fn): fn(error) for its effect on Err; the receiver in either case
ResOrTee(m, fn, o, res) ==
    IF ResIsErr(res)
    THEN LET r == CallFn(m, "orTee", fn, ResPayload(res), o)
         IN  IF r.threw THEN r ELSE Ret(r.m, res)
    ELSE Ret(m, res)

\* andThen(fn) and orElse(fn) with a transformer that returns a plain Result
ResAndThen(m, fn, o, res) ==
    IF ResIsOk(res) THEN CallFn(m, "andThen", [fn EXCEPT !.shape = "result"], ResPayload(res), o)
    ELSE Ret(m, res)

ResOrElse(m, fn, o, res) ==
    IF ResIsErr(res) THEN CallFn(m, "orElse", [fn EXCEPT !.shape = "result"], ResPayload(res), o)
    ELSE Ret(m, res)

-----------------------------------------------------------------------------
(* ResultAsync: the callbacks its methods register on _promise *)

\* isOk: (res) => res.isOk()
isOkCallback(m, res) == Ret(m, Bool(ResIsOk(res)))

\* (mutant) isErr that answers as isOk does
isErrCallback_sameAsIsOk(m, res) == Ret(m, Bool(ResIsOk(res)))

\* isErr: (res) => res.isErr()
isErrCallback(m, res) == Ret(m, Bool(ResIsErr(res)))

\* (mutant) unwrapOr that forgets the fallback and unwraps
unwrapOrCallback_unwraps(m, value, res) == ResUnwrap(m, res)

\* unwrapOr: (res) => res.unwrapOr(value)
unwrapOrCallback(m, value, res) == ResUnwrapOr(m, res, value)

\* match: (res) => res.match(args); t: which terminal operation this is
matchCallback(m, okFn, errFn, t, res) ==
    ResMatch(res, LAMBDA v: CallFn(m, "match.ok", okFn, v, t),
                  LAMBDA e: CallFn(m, "match.err", errFn, e, t))

\* (mutant) map that applies the function to the payload of either variant
mapCallback_bothSides(m, fn, o, res) ==
    LET r == CallFn(m, "map", fn, ResPayload(res), o)
    IN  IF r.threw THEN r ELSE Ret(r.m, okSync(r.ret))

\* map: (res) => res.map(fn)
mapCallback(m, fn, o, res) == ResMap(m, fn, o, res)

\* mapErr: (res) => res.mapErr(fn)
mapErrCallback(m, fn, o, res) == ResMapErr(m, fn, o, res)

\* (mutant) andTee that keeps what the function returned, as map does
andTeeCallback_keepsReturn(m, fn, o, res) == ResMap(m, fn, o, res)

\* andTee: (res) => res.andTee(fn)
andTeeCallback(m, fn, o, res) == ResAndTee(m, fn, o, res)

\* (mutant) orTee that swallows the failure it was shown
orTeeCallback_swallows(m, fn, o, res) ==
    LET r == ResOrTee(m, fn, o, res)
    IN  IF r.threw \/ ResIsOk(res) THEN r ELSE Ret(r.m, okSync(Undefined))

\* orTee: (res) => res.orTee(fn)
orTeeCallback(m, fn, o, res) == ResOrTee(m, fn, o, res)

\* (mutant) unwrap that hands the payload back whatever the variant
unwrapCallback_neverThrows(m, res) == Ret(m, ResPayload(res))

\* unwrap: (res) => res.unwrap()
unwrapCallback(m, res) == ResUnwrap(m, res)

\* (mutant) andThen that wraps what the transformer returned, as map does
andThenOkBranch_nests(m, fn, o, okValue) ==
    LET r == CallFn(m, "andThen", fn, okValue, o)
    IN  IF r.threw THEN r ELSE Ret(r.m, okSync(r.ret))

\* (mutant) andThen that turns a fault of its transformer into an Err
andThenOkBranch_catches(m, fn, o, okValue) ==
    LET r == CallFn(m, "andThen", fn, okValue, o)
    IN  IF r.threw THEN Ret(r.m, errSync(r.ret))
        ELSE IF IsResultAsync(r.ret)
        THEN Ret(r.m, PromiseRef(r.m.objs[r.ret[2]].promise))
        ELSE r

andThenOkBranch(m, fn, o, okValue) ==
    LET r == CallFn(m, "andThen", fn, okValue, o)
    IN  IF r.threw THEN r
        ELSE IF IsResultAsync(r.ret)
        THEN Ret(r.m, PromiseRef(r.m.objs[r.ret[2]].promise))
        ELSE r

\* (mutant) an err branch that hands back a promise nobody settles
andThenErrBranch_neverSettles(m, error) ==
    Ret(NewPromise(m, "pending", Undefined), PromiseRef(NextPromise(m)))

andThenErrBranch(m, error) ==
    Ret(PromiseResolve(m, errSync(error)), PromiseRef(NextPromise(m)))

\* (mutant) andThen that runs the transformer on either variant
andThenCallback_noShortCircuit(m, fn, o, res) ==
    andThenOkBranch(m, fn, o, ResPayload(res))

\* andThen: (res) => res.match({ ok: ..., err: ... })
andThenCallback(m, fn, o, res) ==
    ResMatch(res, LAMBDA v: andThenOkBranch(m, fn, o, v),
                  LAMBDA e: andThenErrBranch(m, e))

orElseOkBranch(m, okValue) ==
    Ret(PromiseResolve(m, okSync(okValue)), PromiseRef(NextPromise(m)))

\* (mutant) orElse that runs the transformer but keeps the failure it was given
orElseErrBranch_keepsFailure(m, fn, o, error) ==
    LET r == CallFn(m, "orElse", fn, error, o)
    IN  IF r.threw THEN r
        ELSE Ret(PromiseResolve(r.m, errSync(error)), PromiseRef(NextPromise(r.m)))

\* (mutant) orElse without the instanceof test: reads _promise off whatever came back
orElseErrBranch_noInstanceTest(m, fn, o, error) ==
    LET r == CallFn(m, "orElse", fn, error, o)
    IN  IF r.threw THEN r
        ELSE IF IsResultAsync(r.ret)
        THEN Ret(r.m, PromiseRef(r.m.objs[r.ret[2]].promise))
        ELSE Ret(r.m, Undefined)

orElseErrBranch(m, fn, o, error) ==
    LET r == CallFn(m, "orElse", fn, error, o)
    IN  IF r.threw THEN r
        ELSE IF IsResultAsync(r.ret)
        THEN Ret(r.m, PromiseRef(r.m.objs[r.ret[2]].promise))
        ELSE r

\* (mutant) orElse that runs the transformer on either variant
orElseCallback_noShortCircuit(m, fn, o, res) ==
    orElseErrBranch(m, fn, o, ResPayload(res))

\* orElse: (res) => res.match({ ok: ..., err: ... })
orElseCallback(m, fn, o, res) ==
    ResMatch(res, LAMBDA v: orElseOkBranch(m, v),
                  LAMBDA e: orElseErrBranch(m, fn, o, e))

\* (mutant) safeTry that passes the value on without wrapping it
safeTryThen_unwrapped(m, res) == Ret(m, res)

\* safeTry: .then((res) => okSync(res))
safeTryThen(m, res) == Ret(m, okSync(res))

\* (mutant) safeTry that forgets the translator
safeTryCatch_noTranslate(m, translate, i, error) == Ret(m, errSync(error))

\* safeTry: .catch((error) => ...)
safeTryCatch(m, translate, i, error) ==
    IF translate # NoFn
    THEN LET r == CallFn(m, "catch", translate, error, i)
         IN  IF r.threw THEN r ELSE Ret(r.m, errSync(r.ret))
    ELSE Ret(m, errSync(error))

-----------------------------------------------------------------------------
(* ResultAsync: methods *)

\* (mutant) then that hands the outcome over and leaves the instance pending
ResultAsyncThen_takes(m, o, okFn, errFn, d) ==
    LET m1 == PerformThen(m, m.objs[o].promise, okFn, errFn, d)
    IN  [m1 EXCEPT !.heap[m.objs[o].promise] = [st |-> "pending", val |-> Undefined, rs |-> <<>>]]

\* (mutant) then on a chain that is cold: every consumer makes the receiver's
\* outcome go through the operator's function again
ResultAsyncThen_rerun(m, o, okFn, errFn, d) ==
    IF m.objs[o].parent = 0 THEN PerformThen(m, m.objs[o].promise, okFn, errFn, d)
    ELSE LET m1 == PromiseThen(m, m.objs[m.objs[o].parent].promise,
                               Handler(m.objs[o].op, AnyFn, o), NoHandler)
         IN  PerformThen(m1, NextPromise(m), okFn, errFn, d)

\* then(okFn, errFn): this._promise.then(okFn, errFn); the promise it derives
\* is kept only when somebody holds it (d # 0)
ResultAsyncThen(m, o, okFn, errFn, d) ==
    PerformThen(m, m.objs[o].promise, okFn, errFn, d)

\* (mutant) unwrap that raises at the call when the outcome is already a failure,
\* as the synchronous unwrap does
unwrap_raisesAtCall(m, o) ==
    LET st == m.heap[m.objs[o].promise]
        m1 == PromiseThen(m, m.objs[o].promise, Handler("unwrap", NoFn, o), NoHandler)
    IN  IF st.st = "fulfilled" /\ ResIsErr(st.val) THEN Throw(m, ResPayload(st.val))
        ELSE Ret(AsyncReturn(m1, PromiseRef(NextPromise(m))), PromiseRef(NextPromise(m1)))

\* async unwrap(): return this._promise.then((res) => res.unwrap())
unwrap(m, o) ==
    LET m1 == PromiseThen(m, m.objs[o].promise, Handler("unwrap", NoFn, o), NoHandler)
    IN  Ret(AsyncReturn(m1, PromiseRef(NextPromise(m))), PromiseRef(NextPromise(m1)))

\* `await o` in the consumer's code: a promise resolved with the instance,
\* which is a thenable
await(m, o) == Ret(AsyncReturn(m, RARef(o)), PromiseRef(NextPromise(m)))

\* an async method whose body is `return this._promise.then(h)`
AsyncThen(m, o, h) ==
    LET m1 == PromiseThen(m, m.objs[o].promise, h, NoHandler)
    IN  Ret(AsyncReturn(m1, PromiseRef(NextPromise(m))), PromiseRef(NextPromise(m1)))

isOk(m, o) == AsyncThen(m, o, Handler("isOk", NoFn, o))

isErr(m, o) == AsyncThen(m, o, Handler("isErr", NoFn, o))

unwrapOr(m, o, value) == AsyncThen(m, o, [Handler("unwrapOr", NoFn, o) EXCEPT !.x = value])

match(m, o, args, t) == AsyncThen(m, o, [Handler("match", args.ok, t) EXCEPT !.fn2 = args.err])

\* (mutant) an operator that also listens to rejections and makes them an Err
Derived_catches(m, o, op, fn) ==
    LET m1 == PromiseThen(m, m.objs[o].promise, Handler(op, fn, NextObj(m)),
                          Handler("safeTry.catch", NoFn, 0))
    IN  NewResultAsync(m1, NextPromise(m), op, o)

\* (mutant) an operator that runs its function at once on a receiver that
\* has its Result already
Derived_inline(m, o, op, fn) ==
    LET p == m.objs[o].promise
        m0 == IF m.heap[p].st = "fulfilled" THEN Logged(m, op, fn, m.heap[p].val, NextObj(m)) ELSE m
        m1 == PromiseThen(m0, p, Handler(op, fn, NextObj(m)), NoHandler)
    IN  NewResultAsync(m1, NextPromise(m), op, o)

\* an operator: new ResultAsync(this._promise.then(h))
Derived(m, o, op, fn) ==
    LET m1 == PromiseThen(m, m.objs[o].promise, Handler(op, fn, NextObj(m)), NoHandler)
    IN  NewResultAsync(m1, NextPromise(m), op, o)

map(m, o, fn) == Derived(m, o, "map", fn)

mapErr(m, o, fn) == Derived(m, o, "mapErr", fn)

andTee(m, o, fn) == Derived(m, o, "andTee", fn)

orTee(m, o, fn) == Derived(m, o, "orTee", fn)

RECURSIVE RootIn(_, _)
RootIn(m, o) == IF m.objs[o].parent = 0 THEN o ELSE RootIn(m, m.objs[o].parent)

\* (mutant) andThen that listens to the start of the chain, not to its receiver
andThen_fromRoot(m, o, fn) ==
    LET m1 == PromiseThen(m, m.objs[RootIn(m, o)].promise, Handler("andThen", fn, NextObj(m)), NoHandler)
    IN  NewResultAsync(m1, NextPromise(m), "andThen", o)

andThen(m, o, fn) ==
    LET m1 == PromiseThen(m, m.objs[o].promise, Handler("andThen", fn, NextObj(m)), NoHandler)
    IN  NewResultAsync(m1, NextPromise(m), "andThen", o)

orElse(m, o, fn) ==
    LET m1 == PromiseThen(m, m.objs[o].promise, Handler("orElse", fn, NextObj(m)), NoHandler)
    IN  NewResultAsync(m1, NextPromise(m), "orElse", o)

-----------------------------------------------------------------------------
(* safeTry *)

RECURSIVE Digits(_)
Digits(args) == IF args = <<>> THEN 0 ELSE 10 * Digits(SubSeq(args, 1, Len(args) - 1)) + args[Len(args)]

\* what the risky operation computes from its arguments, in their order
G(args) == Prim(Digits(args))

\* safeArgs.try(...args): the risky operation itself
CallTry(m, try, args, i) ==
    LET m1 == [m EXCEPT !.calls = Append(@, [site |-> "try", fn |-> NoFn, arg |-> args, by |-> i])]
    IN  CASE try.kind = "undefined" -> Throw(m, TypeError)
          [] try.kind = "throws" -> Throw(m1, try.fault)
          [] try.kind = "resolves" -> Ret(PromiseResolve(m1, G(args)), PromiseRef(NextPromise(m1)))
          [] try.kind = "rejects" -> Ret(NewPromise(m1, "rejected", try.fault), PromiseRef(NextPromise(m1)))
          [] OTHER -> Ret(NewPromise(m1, "pending", Undefined), PromiseRef(NextPromise(m1)))

Reverse(args) == [k \in 1..Len(args) |-> args[Len(args) + 1 - k]]

\* (mutant) an adapted callable that hands the arguments over in reverse
safeTryCall_reversedArgs(m, safeArgs, i, args) ==
    LET r == CallTry(m, safeArgs.try, Reverse(args), i)
    IN  IF r.threw THEN r
        ELSE LET m2 == PromiseThen(r.m, r.ret[2], Handler("safeTry.then", NoFn, i), NoHandler)
                 m3 == PromiseThen(m2, NextPromise(r.m), NoHandler,
                                   Handler("safeTry.catch", safeArgs.catch, i))
             IN  Ret(NewResultAsync(m3, NextPromise(m2), "safeTry", 0), RARef(NextObj(m3)))

\* the callable safeTry returns: (...args) => new ResultAsync(safeArgs.try(...args).then(..).catch(..))
\* (i: which call of it this is, for the record of the functions it invokes)
safeTryCall(m, safeArgs, i, args) ==
    LET r == CallTry(m, safeArgs.try, args, i)
    IN  IF r.threw THEN r
        ELSE LET m2 == PromiseThen(r.m, r.ret[2], Handler("safeTry.then", NoFn, i), NoHandler)
                 m3 == PromiseThen(m2, NextPromise(r.m), NoHandler,
                                   Handler("safeTry.catch", safeArgs.catch, i))
             IN  Ret(NewResultAsync(m3, NextPromise(m2), "safeTry", 0), RARef(NextObj(m3)))

-----------------------------------------------------------------------------
(* The transport wrapper: safeFetch and SafeResponse *)

\* safeArgs.try and safeArgs.catch as read off the value safeTry was given: an
\* object has the properties it was written with, a function has neither
Missing == [kind |-> "undefined", fault |-> TypeError]
PropertiesOf(x) ==
    IF x.kind = "object" THEN [try |-> x.try, catch |-> x.catch]
    ELSE [try |-> Missing, catch |-> NoFn]

\* async () => new SafeResponse(await fetch(...args))
FetchFn(args, reply) == [kind |-> "function", does |-> "fetch", args |-> args, reply |-> reply]

\* () => this.response.text(), .json(), ...
DecodeFn(s, method, reply) == [kind |-> "function", does |-> method, args |-> <<s>>, reply |-> reply]

\* safeFetch(...args): r.safeTry(async () => ...)()
safeFetch(m, args, reply, i) ==
    safeTryCall(m, PropertiesOf(FetchFn(args, reply)), i, <<>>)

\* SafeResponse.text(), json(), formData(), blob(), arrayBuffer(), bytes():
\* r.safeTry(() => this.response.method())()
decode(m, s, method, reply, i) ==
    safeTryCall(m, PropertiesOf(DecodeFn(s, method, reply)), i, <<>>)

\* get status() and get ok() of a SafeResponse
status(rs, s) == rs[s].response[2]
okFlag(rs, s) == rs[s].response[2] \in 200..299

-----------------------------------------------------------------------------
(* infer *)

\* a function as infer takes it: called with args, it builds a ResultAsync or
\* a promise of a Result (i: which call this is, for the record)
CallGiven(m, fn, args, i) ==
    LET m1 == [m EXCEPT !.calls = Append(@, [site |-> "fn", fn |-> fn, arg |-> args, by |-> i])]
    IN  CASE fn.body = "build" -> Ret(toAsync(m1, okSync(G(args))), RARef(NextObj(m1)))
          \* mockFn: Promise.reject(errSync(..)) above 10, else Promise.resolve(okSync(value))
          [] fn.body = "mockFn" /\ Digits(args) > 10 ->
                Ret(NewPromise(m1, "rejected", errSync(Prim(7))), PromiseRef(NextPromise(m1)))
          [] OTHER -> Ret(PromiseResolve(m1, okSync(G(args))), PromiseRef(NextPromise(m1)))

\* (mutant) infer that tries the function once before handing it back
infer_callsNow(m, fn) ==
    Ret(CallGiven(m, fn, <<>>, 0).m, fn)

\* infer(fn) { return fn; }
infer(m, fn) ==
    Ret(m, fn)

-----------------------------------------------------------------------------
(* The microtask loop *)

RunHandler(m, h, how, arg) ==
    CASE h.site = "none" -> IF how = "fulfilled" THEN Ret(m, arg) ELSE Throw(m, arg)
      [] h.site = "resolveFn" -> Ret(ResolvePromise(m, h.p, arg), Undefined)
      [] h.site = "rejectFn" -> Ret(Settle(m, h.p, "rejected", arg), Undefined)
      [] h.site = "unwrap" -> unwrapCallback(m, arg)
      [] h.site = "isOk" -> isOkCallback(m, arg)
      [] h.site = "isErr" -> isErrCallback(m, arg)
      [] h.site = "unwrapOr" -> unwrapOrCallback(m, h.x, arg)
      [] h.site = "match" -> matchCallback(m, h.fn, h.fn2, h.o, arg)
      [] h.site = "map" -> mapCallback(m, h.fn, h.o, arg)
      [] h.site = "mapErr" -> mapErrCallback(m, h.fn, h.o, arg)
      [] h.site = "andTee" -> andTeeCallback(m, h.fn, h.o, arg)
      [] h.site = "orTee" -> orTeeCallback(m, h.fn, h.o, arg)
      [] h.site = "andThen" -> andThenCallback(m, h.fn, h.o, arg)
      [] h.site = "orElse" -> orElseCallback(m, h.fn, h.o, arg)
      [] h.site = "safeTry.then" -> safeTryThen(m, arg)
      [] h.site = "safeTry.catch" -> safeTryCatch(m, h.fn, h.o, arg)

\* NewPromiseResolveThenableJob: thenable.then(resolve, reject)
RunThenableJob(m, job) ==
    IF IsResultAsync(job.arg)
    THEN ResultAsyncThen(m, job.arg[2], ResolveFn(job.to), RejectFn(job.to), 0)
    ELSE PerformThen(m, job.arg[2], ResolveFn(job.to), RejectFn(job.to), 0)

\* PromiseReactionJob: run the handler, settle the derived promise with what it gave
RunReactionJob(m, job, fn) ==
    LET h == IF job.h.fn = AnyFn THEN [job.h EXCEPT !.fn = fn] ELSE job.h
        r == RunHandler(m, h, job.how, job.arg)
    IN  IF r.threw THEN Settle(r.m, job.to, "rejected", r.ret)
        ELSE ResolvePromise(r.m, job.to, r.ret)

Commit(m) ==
    /\ heap' = m.heap
    /\ jobs' = m.jobs
    /\ objs' = m.objs
    /\ calls' = m.calls

RunJob(fn) ==
    /\ jobs # <<>>
    /\ LET m0 == [Machine EXCEPT !.jobs = Tail(jobs)]
       IN  Commit(IF Head(jobs).kind = "thenable"
                  THEN RunThenableJob(m0, Head(jobs))
                  ELSE RunReactionJob(m0, Head(jobs), fn))
    /\ inScript' = FALSE
    /\ UNCHANGED <<adapters, invs, terms, responses>>

-----------------------------------------------------------------------------
(* The consumer's code.  Its calls run to completion before any microtask; *)
(* a new piece of it starts only when the microtask queue is empty.        *)

CanScript == inScript \/ jobs = <<>>

Held == {o \in 1..Len(objs) : objs[o].held}
Operators == {"map", "mapErr", "andThen", "orElse", "andTee", "orTee"}
Chained == {o \in 1..Len(objs) : objs[o].op \in Operators}
Roots == {o \in Held : objs[o].parent = 0}
\* the newest instance in the consumer's hands: the end of the chain it is building
Latest == {o \in Held : \A q \in Held : q <= o}
\* the functions the job at the head of the queue may draw from
Drawn(fns) == IF jobs # <<>> /\ Head(jobs).h.fn = AnyFn THEN fns ELSE {NoFn}
\* the calls the consumer has made: of adapted callables, of operators and of
\* terminal operations
OpsDone == Len(invs) + Cardinality(Chained) + Len(terms)

Shapes == {"result", "promise", "resultAsync", "async"}
OutcomeFns == {[body |-> "dbl", tag |-> "ok", shape |-> s] : s \in Shapes}
                  \cup {[body |-> "add5", tag |-> "ok", shape |-> "resultAsync"]}
                  \cup {[body |-> "e2", tag |-> "err", shape |-> s] : s \in Shapes}

\* the argument lists: distinct values, so that their order shows
ArgLists == {[i \in 1..n |-> i] : n \in 0..MaxArgs}
TryOps == {[kind |-> k, fault |-> f] :
              k \in {"resolves", "rejects", "throws", "resolvesLater", "rejectsLater"}, f \in Faults}
Translators == {NoFn, [body |-> "wrap", tag |-> "", shape |-> ""],
                      [body |-> "e2", tag |-> "", shape |-> ""]}

\* functions returning a plain value
Plain(body) == [body |-> body, tag |-> "", shape |-> ""]
MapFns == {Plain("dbl"), Plain("id")}
MapErrFns == {Plain("wrap"), Plain("id")}
\* a tap may return anything: a plain value, a Result, a promise
TeeFns == {Plain("dbl"), [body |-> "e2", tag |-> "err", shape |-> "result"],
           [body |-> "dbl", tag |-> "ok", shape |-> "promise"]}
\* transformers that hand their outcome back in an asynchronous form
LiftedFns == {[body |-> "dbl", tag |-> "ok", shape |-> "promise"],
              [body |-> "dbl", tag |-> "ok", shape |-> "resultAsync"],
              [body |-> "e2", tag |-> "err", shape |-> "async"]}
FnsAt(site) ==
    CASE site \in {"andThen", "orElse"} -> LiftedFns
      [] site = "map" -> MapFns
      [] site = "mapErr" -> MapErrFns
      [] site \in {"andTee", "orTee"} -> TeeFns
      [] OTHER -> {NoFn}
\* the functions the job at the head of the queue may draw from, by operator
DrawnAt == IF jobs # <<>> /\ Head(jobs).h.fn = AnyFn THEN FnsAt(Head(jobs).h.site) ELSE {NoFn}

\* transformers whose outcome may still be pending when they return
PendingFns == {[body |-> "dbl", tag |-> "ok", shape |-> "resultAsync"],
               [body |-> "dbl", tag |-> "ok", shape |-> "later"],
               [body |-> "e2", tag |-> "err", shape |-> "laterAsync"]}
PendingFnsAt(site) ==
    CASE site \in {"andThen", "orElse"} -> PendingFns
      [] site \in {"map", "andTee", "orTee"} -> {Plain("dbl")}
      [] site = "mapErr" -> {Plain("wrap")}
      [] OTHER -> {NoFn}
DrawnPending ==
    IF jobs # <<>> /\ Head(jobs).h.fn = AnyFn THEN PendingFnsAt(Head(jobs).h.site) ELSE {NoFn}

\* functions that may raise, and transformers that may return a rejected promise
RaisingFns == {Plain("raise"), [body |-> "dbl", tag |-> "ok", shape |-> "promise"],
               [body |-> "dbl", tag |-> "ok", shape |-> "rejected"]}
RaisingFnsAt(site) ==
    CASE site \in {"andThen", "orElse"} -> RaisingFns
      [] site \in {"map", "andTee", "orTee"} -> {Plain("raise"), Plain("dbl")}
      [] site = "mapErr" -> {Plain("raise"), Plain("wrap")}
      [] OTHER -> {NoFn}
DrawnRaising ==
    IF jobs # <<>> /\ Head(jobs).h.fn = AnyFn THEN RaisingFnsAt(Head(jobs).h.site) ELSE {NoFn}

MatchArgs == {[ok |-> Plain("dbl"), err |-> Plain("wrap")],
              [ok |-> Plain("id"), err |-> Plain("e2")]}
Fallbacks == {Prim(0)}
SyncResults == {okSync(Prim(10)), errSync(Prim(3))}
AsyncOps == {[kind |-> "resolves", fault |-> Prim(7)], [kind |-> "rejectsLater", fault |-> Prim(7)]}

MakeOk(v) ==
    /\ CanScript /\ Roots = {}
    /\ Commit(ok(Machine, v))
    /\ inScript' = TRUE
    /\ UNCHANGED <<adapters, invs, terms, responses>>

MakeErr(e) ==
    /\ CanScript /\ Roots = {}
    /\ Commit(err(Machine, e))
    /\ inScript' = TRUE
    /\ UNCHANGED <<adapters, invs, terms, responses>>

AndThen(o) ==
    /\ CanScript /\ OpsDone < MaxOps
    /\ Commit(andThen(Machine, o, AnyFn))
    /\ inScript' = TRUE
    /\ UNCHANGED <<adapters, invs, terms, responses>>

OrElse(o) ==
    /\ CanScript /\ OpsDone < MaxOps
    /\ Commit(orElse(Machine, o, AnyFn))
    /\ inScript' = TRUE
    /\ UNCHANGED <<adapters, invs, terms, responses>>

\* the record of a terminal operation: what was called on which instance,
\* whether the instance was still pending then (early), and how the call came
\* back (the promise it returned, or that it raised)
Terminal(op, o, r) ==
    [op |-> op, obj |-> o, early |-> heap[objs[o].promise].st = "pending",
     threw |-> r.threw, p |-> IF r.threw THEN 0 ELSE r.ret[2],
     x |-> Undefined, args |-> [ok |-> NoFn, err |-> NoFn]]

Unwrap(o) ==
    /\ CanScript /\ OpsDone < MaxOps
    /\ LET r == unwrap(Machine, o)
       IN  /\ Commit(r.m)
           /\ terms' = Append(terms, Terminal("unwrap", o, r))
    /\ inScript' = TRUE
    /\ UNCHANGED <<adapters, invs, responses>>

MakeToAsync(result) ==
    /\ CanScript /\ Roots = {}
    /\ Commit(toAsync(Machine, result))
    /\ inScript' = TRUE
    /\ UNCHANGED <<adapters, invs, terms, responses>>

Map(o) ==
    /\ CanScript /\ OpsDone < MaxOps
    /\ Commit(map(Machine, o, AnyFn))
    /\ inScript' = TRUE
    /\ UNCHANGED <<adapters, invs, terms, responses>>

MapErr(o) ==
    /\ CanScript /\ OpsDone < MaxOps
    /\ Commit(mapErr(Machine, o, AnyFn))
    /\ inScript' = TRUE
    /\ UNCHANGED <<adapters, invs, terms, responses>>

AndTee(o) ==
    /\ CanScript /\ OpsDone < MaxOps
    /\ Commit(andTee(Machine, o, AnyFn))
    /\ inScript' = TRUE
    /\ UNCHANGED <<adapters, invs, terms, responses>>

OrTee(o) ==
    /\ CanScript /\ OpsDone < MaxOps
    /\ Commit(orTee(Machine, o, AnyFn))
    /\ inScript' = TRUE
    /\ UNCHANGED <<adapters, invs, terms, responses>>

IsOk(o) ==
    /\ CanScript /\ OpsDone < MaxOps
    /\ LET r == isOk(Machine, o)
       IN  /\ Commit(r.m)
           /\ terms' = Append(terms, Terminal("isOk", o, r))
    /\ inScript' = TRUE
    /\ UNCHANGED <<adapters, invs, responses>>

IsErr(o) ==
    /\ CanScript /\ OpsDone < MaxOps
    /\ LET r == isErr(Machine, o)
       IN  /\ Commit(r.m)
           /\ terms' = Append(terms, Terminal("isErr", o, r))
    /\ inScript' = TRUE
    /\ UNCHANGED <<adapters, invs, responses>>

UnwrapOr(o, value) ==
    /\ CanScript /\ OpsDone < MaxOps
    /\ LET r == unwrapOr(Machine, o, value)
       IN  /\ Commit(r.m)
           /\ terms' = Append(terms, [Terminal("unwrapOr", o, r) EXCEPT !.x = value])
    /\ inScript' = TRUE
    /\ UNCHANGED <<adapters, invs, responses>>

Match(o, args) ==
    /\ CanScript /\ OpsDone < MaxOps
    /\ LET r == match(Machine, o, args, Len(terms) + 1)
       IN  /\ Commit(r.m)
           /\ terms' = Append(terms, [Terminal("match", o, r) EXCEPT !.args = args])
    /\ inScript' = TRUE
    /\ UNCHANGED <<adapters, invs, responses>>

Await(o) ==
    /\ CanScript /\ OpsDone < MaxOps
    /\ LET r == await(Machine, o)
       IN  /\ Commit(r.m)
           /\ terms' = Append(terms, Terminal("await", o, r))
    /\ inScript' = TRUE
    /\ UNCHANGED <<adapters, invs, responses>>

\* a promise a transformer returned settles, some time after the call
SettleLater(p) ==
    /\ jobs = <<>>
    /\ heap[p].st = "pending" /\ heap[p].val # Undefined
    /\ Commit(Settle(Machine, p, "fulfilled", heap[p].val))
    /\ inScript' = FALSE
    /\ UNCHANGED <<adapters, invs, terms, responses>>

\* safeTry(safeArgs) only builds the callable
SafeTry(try, catch) ==
    /\ CanScript /\ adapters = <<>>
    /\ adapters' = Append(adapters, [try |-> try, catch |-> catch])
    /\ inScript' = TRUE
    /\ UNCHANGED <<heap, jobs, objs, calls, invs, terms, responses>>

CallAdapted(a, args) ==
    /\ CanScript /\ OpsDone < MaxOps
    /\ LET r == safeTryCall(Machine, adapters[a], Len(invs) + 1, args)
       IN  /\ Commit(r.m)
           /\ invs' = Append(invs, [adapter |-> a, args |-> args, threw |-> r.threw,
                                    ret |-> r.ret, p |-> Len(heap) + 1])
    /\ inScript' = TRUE
    /\ UNCHANGED <<adapters, terms, responses>>

\* the risky operation's own promise settles, some time after the call
SettleTry(i) ==
    /\ jobs = <<>>
    /\ ~invs[i].threw /\ heap[invs[i].p].st = "pending"
    /\ LET try == adapters[invs[i].adapter].try
       IN  Commit(IF try.kind = "resolvesLater"
                  THEN Settle(Machine, invs[i].p, "fulfilled", G(invs[i].args))
                  ELSE Settle(Machine, invs[i].p, "rejected", try.fault))
    /\ inScript' = FALSE
    /\ UNCHANGED <<adapters, invs, terms, responses>>

\* the functions given to infer
GivenFns == {[body |-> "build", tag |-> "ok", shape |-> "resultAsync"],
             [body |-> "mockFn", tag |-> "", shape |-> "promise"]}

\* const inferFn = infer(fn): the consumer keeps fn and what infer returned
Infer(fn) ==
    /\ CanScript /\ \A a \in 1..Len(adapters) : adapters[a].fn # fn
    /\ LET r == infer(Machine, fn)
       IN  /\ Commit(r.m)
           /\ adapters' = Append(adapters, [try |-> r.ret, catch |-> NoFn, fn |-> fn])
    /\ inScript' = TRUE
    /\ UNCHANGED <<invs, terms, responses>>

\* a call of a function the consumer holds
CallHeld(a, via, callee, args) ==
    /\ CanScript /\ OpsDone < MaxOps
    /\ LET r == CallGiven(Machine, callee, args, Len(invs) + 1)
       IN  /\ Commit(r.m)
           /\ invs' = Append(invs, [adapter |-> a, via |-> via, args |-> args, threw |-> r.threw,
                                    ret |-> r.ret, p |-> Len(heap) + 1])
    /\ inScript' = TRUE
    /\ UNCHANGED <<adapters, terms, responses>>

\* inferFn(...args)
CallInferred(a, args) == CallHeld(a, "infer", adapters[a].try, args)

\* fn(...args)
CallOriginal(a, args) == CallHeld(a, "fn", adapters[a].fn, args)

\* await of what a call returned
AwaitCall(i) ==
    /\ CanScript /\ OpsDone < MaxOps
    /\ ~invs[i].threw
    /\ Commit(AsyncReturn(Machine, invs[i].ret))
    /\ terms' = Append(terms, [op |-> "await", obj |-> i, early |-> FALSE, threw |-> FALSE,
                               p |-> NextPromise(Machine), x |-> Undefined,
                               args |-> [ok |-> NoFn, err |-> NoFn]])
    /\ inScript' = TRUE
    /\ UNCHANGED <<adapters, invs, responses>>

\* what the host's fetch does with the request: a response of some status, or a fault
FetchReplies == {[fails |-> FALSE, status |-> 200, fault |-> Undefined],
                 [fails |-> FALSE, status |-> 404, fault |-> Undefined],
                 [fails |-> TRUE, status |-> 0, fault |-> Prim(7)]}
\* what decoding the body does: a decoded value, or a fault
DecodeReplies == {[fails |-> FALSE, status |-> 0, fault |-> Undefined],
                  [fails |-> TRUE, status |-> 0, fault |-> Prim(8)]}
Statuses == {200, 404}

\* a call of the wrapper, and how it came back
Fetched(via, s, reply, r) ==
    [adapter |-> s, via |-> via, args |-> <<>>, reply |-> reply, threw |-> r.threw,
     ret |-> r.ret, p |-> Len(heap) + 1]

SafeFetch(reply) ==
    /\ CanScript /\ OpsDone < MaxOps
    /\ LET r == safeFetch(Machine, <<1>>, reply, Len(invs) + 1)
       IN  /\ Commit(r.m)
           /\ invs' = Append(invs, Fetched("safeFetch", 0, reply, r))
    /\ inScript' = TRUE
    /\ UNCHANGED <<adapters, terms, responses>>

\* new SafeResponse(response)
NewSafeResponse(st) ==
    /\ CanScript /\ responses = <<>>
    /\ responses' = Append(responses, [response |-> Response(st)])
    /\ inScript' = TRUE
    /\ UNCHANGED <<heap, jobs, objs, calls, adapters, invs, terms>>

Decode(s, method, reply) ==
    /\ CanScript /\ OpsDone < MaxOps
    /\ LET r == decode(Machine, s, method, reply, Len(invs) + 1)
       IN  /\ Commit(r.m)
           /\ invs' = Append(invs, Fetched(method, s, reply, r))
    /\ inScript' = TRUE
    /\ UNCHANGED <<adapters, terms, responses>>

Text(s, reply) == Decode(s, "text", reply)

Json(s, reply) == Decode(s, "json", reply)

FormData(s, reply) == Decode(s, "formData", reply)

Blob(s, reply) == Decode(s, "blob", reply)

ArrayBuffer(s, reply) == Decode(s, "arrayBuffer", reply)

Bytes(s, reply) == Decode(s, "bytes", reply)

\* a pending computation settles: the root's, or a promise a function returned
Settles ==
    \/ \E i \in 1..Len(invs) : SettleTry(i)
    \/ \E p \in 1..Len(heap) : SettleLater(p)

\* the event loop runs the next microtask
Runs == \E fn \in DrawnPending : RunJob(fn)

Init ==
    /\ heap = <<>>
    /\ jobs = <<>>
    /\ objs = <<>>
    /\ calls = <<>>
    /\ adapters = <<>>
    /\ invs = <<>>
    /\ terms = <<>>
    /\ responses = <<>>
    /\ inScript = FALSE

Next ==
    \/ \E v \in Payloads : MakeOk(v)
    \/ \E e \in Errors : MakeErr(e)
    \/ \E o \in Latest : AndThen(o)
    \/ \E o \in Latest : OrElse(o)
    \/ \E o \in Latest : Unwrap(o)
    \/ \E fn \in Drawn(OutcomeFns) : RunJob(fn)

Spec == Init /\ [][Next]_vars

NextSafeTry ==
    \/ \E try \in TryOps, catch \in Translators : SafeTry(try, catch)
    \/ \E a \in 1..Len(adapters), args \in ArgLists : CallAdapted(a, args)
    \/ \E i \in 1..Len(invs) : SettleTry(i)
    \/ \E o \in Latest : Unwrap(o)
    \/ RunJob(NoFn)

SpecSafeTry == Init /\ [][NextSafeTry]_vars

\* the operators and terminal operations called on the chain so far
ChainOpen == Cardinality(Chained) + Len(terms) < MaxChain

\* the whole algebra: every constructor, every operator, the terminal
\* operations that extract without raising; functions that return
NextAlgebra ==
    \/ \E v \in Payloads : MakeOk(v)
    \/ \E e \in Errors : MakeErr(e)
    \/ \E result \in SyncResults : MakeToAsync(result)
    \/ \E try \in AsyncOps : SafeTry(try, Plain("wrap"))
    \/ \E a \in 1..Len(adapters) : Roots = {} /\ CallAdapted(a, <<1>>)
    \/ \E i \in 1..Len(invs) : SettleTry(i)
    \/ \E o \in Latest : ChainOpen /\ Map(o)
    \/ \E o \in Latest : ChainOpen /\ MapErr(o)
    \/ \E o \in Latest : ChainOpen /\ AndThen(o)
    \/ \E o \in Latest : ChainOpen /\ OrElse(o)
    \/ \E o \in Latest : ChainOpen /\ AndTee(o)
    \/ \E o \in Latest : ChainOpen /\ OrTee(o)
    \/ \E o \in Latest : ChainOpen /\ IsOk(o)
    \/ \E o \in Latest : ChainOpen /\ IsErr(o)
    \/ \E o \in Latest, value \in Fallbacks : ChainOpen /\ UnwrapOr(o, value)
    \/ \E o \in Latest, args \in MatchArgs : ChainOpen /\ Match(o, args)
    \/ \E fn \in DrawnAt : RunJob(fn)

SpecAlgebra == Init /\ [][NextAlgebra]_vars

\* chains that branch: operators and observers on any instance the consumer
\* holds, at any time; transformers whose outcome settles later
NextBranch ==
    \/ \E result \in SyncResults : MakeToAsync(result)
    \/ \E try \in AsyncOps : SafeTry(try, Plain("wrap"))
    \/ \E a \in 1..Len(adapters) : Roots = {} /\ CallAdapted(a, <<1>>)
    \/ \E i \in 1..Len(invs) : SettleTry(i)
    \/ \E p \in 1..Len(heap) : SettleLater(p)
    \/ \E o \in Held : ChainOpen /\ Map(o)
    \/ \E o \in Held : ChainOpen /\ MapErr(o)
    \/ \E o \in Held : ChainOpen /\ AndThen(o)
    \/ \E o \in Held : ChainOpen /\ OrElse(o)
    \/ \E o \in Held : ChainOpen /\ AndTee(o)
    \/ \E o \in Held : ChainOpen /\ OrTee(o)
    \/ \E o \in Held : ChainOpen /\ Await(o)
    \/ \E fn \in DrawnPending : RunJob(fn)

SpecBranch == Init /\ [][NextBranch]_vars

\* chains whose functions may raise: every operator, every terminal operation
NextFaults ==
    \/ \E result \in SyncResults : MakeToAsync(result)
    \/ \E o \in Latest : ChainOpen /\ Map(o)
    \/ \E o \in Latest : ChainOpen /\ MapErr(o)
    \/ \E o \in Latest : ChainOpen /\ AndThen(o)
    \/ \E o \in Latest : ChainOpen /\ OrElse(o)
    \/ \E o \in Latest : ChainOpen /\ AndTee(o)
    \/ \E o \in Latest : ChainOpen /\ OrTee(o)
    \/ \E o \in Latest : ChainOpen /\ IsOk(o)
    \/ \E o \in Latest : ChainOpen /\ IsErr(o)
    \/ \E o \in Latest : ChainOpen /\ Unwrap(o)
    \/ \E o \in Latest, value \in Fallbacks : ChainOpen /\ UnwrapOr(o, value)
    \/ \E o \in Latest, args \in MatchArgs : ChainOpen /\ Match(o, args)
    \/ \E o \in Latest : ChainOpen /\ Await(o)
    \/ \E fn \in DrawnRaising : RunJob(fn)

SpecFaults == Init /\ [][NextFaults]_vars

\* one operator on a resolved root, then any number of consumers of the
\* instance it returned: awaits, terminal operations, further operators
FirstOp == {o \in Roots : Chained = {}}
Consumed == Chained \cap Held
NextOnce ==
    \/ \E result \in SyncResults : MakeToAsync(result)
    \/ \E o \in FirstOp : Map(o)
    \/ \E o \in FirstOp : MapErr(o)
    \/ \E o \in FirstOp : AndThen(o)
    \/ \E o \in FirstOp : OrElse(o)
    \/ \E o \in FirstOp : AndTee(o)
    \/ \E o \in FirstOp : OrTee(o)
    \/ \E o \in Consumed : Await(o)
    \/ \E o \in Consumed : IsOk(o)
    \/ \E o \in Consumed : Unwrap(o)
    \/ \E o \in Consumed, args \in MatchArgs : Match(o, args)
    \/ \E o \in Consumed : Map(o)
    \/ \E o \in Consumed : OrElse(o)
    \/ \E p \in 1..Len(heap) : SettleLater(p)
    \/ \E fn \in DrawnPending : RunJob(fn)

SpecOnce == Init /\ [][NextOnce]_vars

\* a chain on a root that may still be pending, with functions whose promises
\* may settle later, and the terminal operations at its end
NextLive ==
    \/ \E try \in AsyncOps : SafeTry(try, Plain("wrap"))
    \/ \E a \in 1..Len(adapters) : Roots = {} /\ CallAdapted(a, <<1>>)
    \/ \E o \in Latest : ChainOpen /\ Map(o)
    \/ \E o \in Latest : ChainOpen /\ AndThen(o)
    \/ \E o \in Latest : ChainOpen /\ OrElse(o)
    \/ \E o \in Latest : ChainOpen /\ IsOk(o)
    \/ \E o \in Latest : ChainOpen /\ IsErr(o)
    \/ \E o \in Latest : ChainOpen /\ Unwrap(o)
    \/ \E o \in Latest, value \in Fallbacks : ChainOpen /\ UnwrapOr(o, value)
    \/ \E o \in Latest, args \in MatchArgs : ChainOpen /\ Match(o, args)
    \/ Settles
    \/ Runs

\* the microtask queue is always drained, and the root computation and the
\* promises the functions returned do settle
SpecLive == Init /\ [][NextLive]_vars /\ WF_vars(Runs) /\ WF_vars(Settles)

\* the transport wrapper: requests, and decodings of a response's body
NextFetch ==
    \/ \E reply \in FetchReplies : SafeFetch(reply)
    \/ \E st \in Statuses : NewSafeResponse(st)
    \/ \E s \in 1..Len(responses), reply \in DecodeReplies : Text(s, reply)
    \/ \E s \in 1..Len(responses), reply \in DecodeReplies : Json(s, reply)
    \/ \E s \in 1..Len(responses), reply \in DecodeReplies : FormData(s, reply)
    \/ \E s \in 1..Len(responses), reply \in DecodeReplies : Blob(s, reply)
    \/ \E s \in 1..Len(responses), reply \in DecodeReplies : ArrayBuffer(s, reply)
    \/ \E s \in 1..Len(responses), reply \in DecodeReplies : Bytes(s, reply)

SpecFetch == Init /\ [][NextFetch]_vars

\* infer: functions handed to infer, then called directly and through it
NextInfer ==
    \/ \E fn \in GivenFns : Infer(fn)
    \/ \E a \in 1..Len(adapters), args \in ArgLists : CallInferred(a, args)
    \/ \E a \in 1..Len(adapters), args \in ArgLists : CallOriginal(a, args)
    \/ \E i \in 1..Len(invs) : AwaitCall(i)
    \/ RunJob(NoFn)

SpecInfer == Init /\ [][NextInfer]_vars

-----------------------------------------------------------------------------
(* Reading the state *)

Settled(p) == heap[p].st # "pending"
Fulfilled(p, x) == heap[p].st = "fulfilled" /\ heap[p].val = x
Rejected(p, x) == heap[p].st = "rejected" /\ heap[p].val = x
PromiseOf(o) == objs[o].promise

\* the invocations of caller-supplied functions made at `site` on behalf of `by`
CallsBy(site, by) == {k \in 1..Len(calls) : calls[k].site = site /\ calls[k].by = by}

Invs == 1..Len(invs)
TryOf(i) == adapters[invs[i].adapter].try
CatchOf(i) == adapters[invs[i].adapter].catch
\* the ResultAsync the i-th call of the adapted callable returned
InvObj(i) == invs[i].ret[2]
Translated(catch, f) == IF catch = NoFn THEN f ELSE BodyValue(catch.body, f)
TermsOn(o, op) == {t \in 1..Len(terms) : terms[t].obj = o /\ terms[t].op = op}

-----------------------------------------------------------------------------
(* safeTry *)

\* C1: the adapted callable never throws to its caller and the ResultAsync it
\* returns never rejects: once settled it holds an Ok or an Err.
C1_NeverReRaises ==
    \A i \in Invs :
        /\ ~invs[i].threw
        /\ heap[PromiseOf(InvObj(i))].st # "rejected"
        /\ Settled(PromiseOf(InvObj(i))) => IsResult(heap[PromiseOf(InvObj(i))].val)

\* C2: a fault f raised during the call and a fault f the returned promise
\* rejects with both come back as Err(catch(f)), or Err(f) with no translator.
C2_SameTranslationStep ==
    \A i \in Invs :
        TryOf(i).kind \in {"throws", "rejects", "rejectsLater"} =>
            /\ ~invs[i].threw
            /\ Settled(PromiseOf(InvObj(i))) =>
                   Fulfilled(PromiseOf(InvObj(i)),
                             errSync(Translated(CatchOf(i), TryOf(i).fault)))

\* C3: when the operation completes normally with v the ResultAsync resolves to
\* Ok(v), unwrap resolves to v, and the translator is not invoked for that call.
C3_NormalCompletionIsOk ==
    \A i \in Invs :
        TryOf(i).kind \in {"resolves", "resolvesLater"} =>
            /\ ~invs[i].threw
            /\ CallsBy("catch", i) = {}
            /\ Settled(PromiseOf(InvObj(i))) =>
                   Fulfilled(PromiseOf(InvObj(i)), okSync(G(invs[i].args)))
            /\ \A t \in TermsOn(InvObj(i), "unwrap") :
                   Settled(terms[t].p) => Fulfilled(terms[t].p, G(invs[i].args))

C3_Witness ==
    \E i \in Invs :
        /\ TryOf(i).kind = "resolvesLater" /\ CatchOf(i) # NoFn /\ ~invs[i].threw
        /\ invs[i].args = <<1, 2>>
        /\ Fulfilled(PromiseOf(InvObj(i)), okSync(Prim(12)))
        /\ \E t \in TermsOn(InvObj(i), "unwrap") : Fulfilled(terms[t].p, Prim(12))

\* C4: when the operation rejects with f the ResultAsync resolves to Err(f) with
\* no translator and to Err(catch(f)) with one, and the translator is invoked
\* exactly once for that call, with f.
C4_RejectionIsTranslatedOnce ==
    \A i \in Invs :
        TryOf(i).kind \in {"rejects", "rejectsLater"} =>
            /\ ~invs[i].threw
            /\ Cardinality(CallsBy("catch", i)) <= 1
            /\ CatchOf(i) = NoFn => CallsBy("catch", i) = {}
            /\ \A k \in CallsBy("catch", i) :
                   calls[k].arg = TryOf(i).fault /\ calls[k].fn = CatchOf(i)
            /\ Settled(PromiseOf(InvObj(i))) =>
                   /\ Fulfilled(PromiseOf(InvObj(i)),
                                errSync(Translated(CatchOf(i), TryOf(i).fault)))
                   /\ CatchOf(i) # NoFn => Cardinality(CallsBy("catch", i)) = 1

C4_Witness ==
    /\ Len(invs) = 2
    /\ \A i \in Invs :
           /\ TryOf(i).kind = "rejects" /\ CatchOf(i).body = "wrap" /\ ~invs[i].threw
           /\ Fulfilled(PromiseOf(InvObj(i)), errSync(Wrapped(TryOf(i).fault)))
           /\ Cardinality(CallsBy("catch", i)) = 1

\* C5: building the adapter does not invoke the operation; each call of the
\* adapted callable invokes it exactly once, with the arguments supplied in the
\* same order, so an operation resolving to g(a1..an) gives Ok(g(a1..an)).
C5_SameArgumentsOneCall ==
    /\ Cardinality({k \in 1..Len(calls) : calls[k].site = "try"}) = Len(invs)
    /\ \A i \in Invs :
           /\ Cardinality(CallsBy("try", i)) = 1
           /\ \A k \in CallsBy("try", i) : calls[k].arg = invs[i].args
           /\ (/\ TryOf(i).kind \in {"resolves", "resolvesLater"}
               /\ ~invs[i].threw
               /\ Settled(PromiseOf(InvObj(i))))
                  => Fulfilled(PromiseOf(InvObj(i)), okSync(G(invs[i].args)))

C5_Witness ==
    /\ Len(invs) = 2
    /\ invs[1].args = <<1, 2>> /\ invs[2].args = <<1>>
    /\ TryOf(1).kind = "resolves" /\ ~invs[1].threw /\ ~invs[2].threw
    /\ Fulfilled(PromiseOf(InvObj(1)), okSync(Prim(12)))
    /\ Fulfilled(PromiseOf(InvObj(2)), okSync(Prim(1)))

-----------------------------------------------------------------------------
(* andThen and orElse *)

AndThens == {o \in 1..Len(objs) : objs[o].op = "andThen"}
OrElses == {o \in 1..Len(objs) : objs[o].op = "orElse"}
Receiver(o) == heap[PromiseOf(objs[o].parent)]
ReceiverIsOk(o) == Receiver(o).st = "fulfilled" /\ ResIsOk(Receiver(o).val)
ReceiverIsErr(o) == Receiver(o).st = "fulfilled" /\ ResIsErr(Receiver(o).val)

\* the outcome a transformer builds from its argument, whatever shape it comes in
OutcomeOf(fn, arg) ==
    IF fn.tag = "ok" THEN okSync(BodyValue(fn.body, arg)) ELSE errSync(BodyValue(fn.body, arg))

\* C6: when the receiver resolves to Err(e), andThen never invokes its
\* transformer and resolves to Err(e); so does every andThen after it.
C6_AndThenShortCircuits ==
    \A o \in AndThens :
        ReceiverIsErr(o) =>
            /\ CallsBy("andThen", o) = {}
            /\ Settled(PromiseOf(o)) =>
                   Fulfilled(PromiseOf(o), errSync(ResPayload(Receiver(o).val)))

C6_Witness ==
    \E o1, o2 \in AndThens :
        /\ objs[o2].parent = o1 /\ objs[objs[o1].parent].op = "err"
        /\ Fulfilled(PromiseOf(objs[o1].parent), errSync(Prim(3)))
        /\ Fulfilled(PromiseOf(o1), errSync(Prim(3)))
        /\ Fulfilled(PromiseOf(o2), errSync(Prim(3)))
        /\ calls = <<>>

\* C7: when the receiver resolves to Ok(v), orElse never invokes its transformer
\* and resolves to Ok(v).
C7_OrElseShortCircuits ==
    \A o \in OrElses :
        ReceiverIsOk(o) =>
            /\ CallsBy("orElse", o) = {}
            /\ Settled(PromiseOf(o)) =>
                   Fulfilled(PromiseOf(o), okSync(ResPayload(Receiver(o).val)))

C7_Witness ==
    \E o \in OrElses :
        /\ objs[objs[o].parent].op = "ok"
        /\ Fulfilled(PromiseOf(objs[o].parent), okSync(Prim(10)))
        /\ Fulfilled(PromiseOf(o), okSync(Prim(10)))
        /\ calls = <<>>

\* C8: when the receiver resolves to Ok(v) and the transformer's outcome is X,
\* andThen resolves to exactly X, never to an Ok around an outcome; andThen
\* calls compose from left to right.
C8_AndThenFlattens ==
    \A o \in AndThens :
        ReceiverIsOk(o) =>
            /\ Cardinality(CallsBy("andThen", o)) <= 1
            /\ \A k \in CallsBy("andThen", o) : calls[k].arg = ResPayload(Receiver(o).val)
            /\ Settled(PromiseOf(o)) =>
                   /\ \E k \in CallsBy("andThen", o) :
                          Fulfilled(PromiseOf(o), OutcomeOf(calls[k].fn, ResPayload(Receiver(o).val)))
                   /\ IsPrim(ResPayload(heap[PromiseOf(o)].val))

C8_Witness ==
    \E o1, o2 \in AndThens :
        /\ objs[o2].parent = o1 /\ objs[objs[o1].parent].op = "ok"
        /\ Fulfilled(PromiseOf(objs[o1].parent), okSync(Prim(10)))
        /\ Fulfilled(PromiseOf(o1), okSync(Prim(20)))
        /\ Fulfilled(PromiseOf(o2), okSync(Prim(25)))

\* C9: a transformer of andThen or orElse may hand its outcome X back as a plain
\* Result, as a promise of it or as a ResultAsync: the chained ResultAsync
\* resolves to the same X, variant and payload, in every shape.
C9_ShapesUnify ==
    \A o \in AndThens \cup OrElses :
        \A k \in CallsBy(objs[o].op, o) :
            /\ calls[k].fn.shape \in Shapes
            /\ Settled(PromiseOf(o)) =>
                   Fulfilled(PromiseOf(o), OutcomeOf([calls[k].fn EXCEPT !.shape = "result"], calls[k].arg))

C9_Witness ==
    \E o1 \in AndThens, o2 \in OrElses, o3 \in AndThens :
        /\ objs[o2].parent = o1 /\ objs[o3].parent = o2
        /\ \E k \in CallsBy("andThen", o1) : calls[k].fn.shape = "result"
        /\ \E k \in CallsBy("orElse", o2) : calls[k].fn.shape = "promise"
        /\ \E k \in CallsBy("andThen", o3) : calls[k].fn.shape = "resultAsync"
        /\ Fulfilled(PromiseOf(o1), errSync(Prim(9)))
        /\ Fulfilled(PromiseOf(o2), okSync(Prim(18)))
        /\ Fulfilled(PromiseOf(o3), okSync(Prim(36)))

\* C10: when the receiver resolves to Ok and the andThen transformer yields
\* Err(e2), the chained ResultAsync resolves to Err(e2) and unwrap() on it
\* rejects with e2.
C10_TransformerFailureIsTheFailure ==
    \A o \in AndThens :
        \A k \in CallsBy("andThen", o) :
            (ReceiverIsOk(o) /\ calls[k].fn.tag = "err") =>
                /\ Settled(PromiseOf(o)) =>
                       Fulfilled(PromiseOf(o), errSync(BodyValue(calls[k].fn.body, calls[k].arg)))
                /\ \A t \in TermsOn(o, "unwrap") :
                       Settled(terms[t].p) =>
                           Rejected(terms[t].p, BodyValue(calls[k].fn.body, calls[k].arg))

C10_Witness ==
    \E o \in AndThens :
        /\ Fulfilled(PromiseOf(objs[o].parent), okSync(Prim(10)))
        /\ Fulfilled(PromiseOf(o), errSync(Prim(9)))
        /\ \E t \in TermsOn(o, "unwrap") : Rejected(terms[t].p, Prim(9))

\* C11: when the receiver resolves to Err(e), orElse invokes its transformer
\* with e, once, and resolves to the transformer's outcome: Ok(w) when it yields
\* Ok(w), Err(e2) with the new payload when it yields Err(e2); after an orElse
\* that resolved to Ok, a later orElse does not run its transformer.
C11_OrElseReplacesFailure ==
    \A o \in OrElses :
        /\ ReceiverIsErr(o) =>
               /\ Cardinality(CallsBy("orElse", o)) <= 1
               /\ \A k \in CallsBy("orElse", o) : calls[k].arg = ResPayload(Receiver(o).val)
               /\ Settled(PromiseOf(o)) =>
                      \E k \in CallsBy("orElse", o) :
                          Fulfilled(PromiseOf(o), OutcomeOf(calls[k].fn, ResPayload(Receiver(o).val)))
        /\ \A o2 \in OrElses :
               (/\ objs[o2].parent = o
                /\ heap[PromiseOf(o)].st = "fulfilled" /\ ResIsOk(heap[PromiseOf(o)].val))
                   => /\ CallsBy("orElse", o2) = {}
                      /\ Settled(PromiseOf(o2)) => heap[PromiseOf(o2)] = heap[PromiseOf(o)]

C11_Witness ==
    \E o1, o2, o3 \in OrElses :
        /\ objs[o2].parent = o1 /\ objs[o3].parent = o2
        /\ Fulfilled(PromiseOf(objs[o1].parent), errSync(Prim(3)))
        /\ Fulfilled(PromiseOf(o1), errSync(Prim(9)))
        /\ Fulfilled(PromiseOf(o2), okSync(Prim(18)))
        /\ Fulfilled(PromiseOf(o3), okSync(Prim(18)))
        /\ Cardinality(CallsBy("orElse", o1)) = 1 /\ Cardinality(CallsBy("orElse", o2)) = 1
        /\ CallsBy("orElse", o3) = {}

-----------------------------------------------------------------------------
(* Terminal operations *)

Unwraps == {t \in 1..Len(terms) : terms[t].op = "unwrap"}
\* the state of the promise the instance of terminal operation t holds
Observed(t) == heap[PromiseOf(terms[t].obj)]

\* C12: unwrap() never raises at the call: it returns a promise, which resolves
\* to v when the instance resolves to Ok(v) and rejects with e itself when the
\* instance resolves to Err(e).
C12_UnwrapRejectsNeverRaises ==
    \A t \in Unwraps :
        /\ ~terms[t].threw
        /\ terms[t].p \in 1..Len(heap)
        /\ Settled(terms[t].p) =>
               /\ Observed(t).st = "fulfilled"
               /\ ResIsOk(Observed(t).val) => Fulfilled(terms[t].p, ResPayload(Observed(t).val))
               /\ ResIsErr(Observed(t).val) => Rejected(terms[t].p, ResPayload(Observed(t).val))

C12_Witness ==
    \E t1, t2 \in Unwraps :
        /\ ~terms[t1].threw /\ ~terms[t2].threw
        /\ objs[terms[t1].obj].op = "err" /\ objs[terms[t2].obj].op = "orElse"
        /\ Rejected(terms[t1].p, Prim(4))
        /\ Fulfilled(terms[t2].p, Prim(8))

TermsOp(op) == {t \in 1..Len(terms) : terms[t].op = op}
OkBranchCalls(t) == CallsBy("match.ok", t)
ErrBranchCalls(t) == CallsBy("match.err", t)

\* C13: match and unwrapOr never raise and the promises they return never
\* reject, whatever chain of operators (with functions that return) built the
\* instance: unwrapOr resolves to the Ok payload or to the fallback, match to
\* the result of the branch of the variant; no instance of the chain rejects.
C13_MatchAndUnwrapOrNeverFault ==
    /\ \A o \in 1..Len(objs) : heap[PromiseOf(o)].st # "rejected"
    /\ \A t \in TermsOp("unwrapOr") \cup TermsOp("match") :
           /\ ~terms[t].threw
           /\ heap[terms[t].p].st # "rejected"
           /\ Settled(terms[t].p) => Observed(t).st = "fulfilled"
    /\ \A t \in TermsOp("unwrapOr") :
           Settled(terms[t].p) =>
               Fulfilled(terms[t].p, IF ResIsOk(Observed(t).val)
                                     THEN ResPayload(Observed(t).val) ELSE terms[t].x)
    /\ \A t \in TermsOp("match") :
           Settled(terms[t].p) =>
               Fulfilled(terms[t].p,
                         IF ResIsOk(Observed(t).val)
                         THEN BodyValue(terms[t].args.ok.body, ResPayload(Observed(t).val))
                         ELSE BodyValue(terms[t].args.err.body, ResPayload(Observed(t).val)))

C13_Witness ==
    /\ \E t \in TermsOp("match") :
           /\ objs[terms[t].obj].op = "orElse"
           /\ objs[objs[terms[t].obj].parent].op = "safeTry"
           /\ Fulfilled(PromiseOf(objs[terms[t].obj].parent), errSync(Wrapped(Prim(7))))
           /\ Fulfilled(PromiseOf(terms[t].obj), errSync(Prim(9)))
           /\ terms[t].args.err.body = "wrap"
           /\ Fulfilled(terms[t].p, Wrapped(Prim(9)))

C13_WitnessUnwrapOr ==
    \E t \in TermsOp("unwrapOr") :
        /\ objs[terms[t].obj].op = "mapErr"
        /\ Fulfilled(PromiseOf(terms[t].obj), errSync(Wrapped(Prim(3))))
        /\ Fulfilled(terms[t].p, Prim(0))

\* C14: the variants are exclusive and permanent: isOk() resolves to true
\* exactly on Ok and isErr() exactly on Err, so ok(v) answers true/false and
\* err(e) false/true; two calls of the same predicate on one instance agree;
\* match invokes one branch, the one of the variant, once.
C14_VariantsExclusive ==
    /\ \A t \in TermsOp("isOk") :
           Settled(terms[t].p) =>
               /\ Observed(t).st = "fulfilled"
               /\ Fulfilled(terms[t].p, Bool(ResIsOk(Observed(t).val)))
               /\ objs[terms[t].obj].op = "ok" => Fulfilled(terms[t].p, Bool(TRUE))
               /\ objs[terms[t].obj].op = "err" => Fulfilled(terms[t].p, Bool(FALSE))
    /\ \A t \in TermsOp("isErr") :
           Settled(terms[t].p) =>
               /\ Observed(t).st = "fulfilled"
               /\ Fulfilled(terms[t].p, Bool(ResIsErr(Observed(t).val)))
               /\ objs[terms[t].obj].op = "ok" => Fulfilled(terms[t].p, Bool(FALSE))
               /\ objs[terms[t].obj].op = "err" => Fulfilled(terms[t].p, Bool(TRUE))
    /\ \A t1, t2 \in TermsOp("isOk") \cup TermsOp("isErr") :
           (/\ terms[t1].obj = terms[t2].obj
            /\ Settled(terms[t1].p) /\ Settled(terms[t2].p))
               => /\ heap[terms[t1].p].st = "fulfilled" /\ heap[terms[t2].p].st = "fulfilled"
                  /\ (terms[t1].op = terms[t2].op) = (heap[terms[t1].p].val = heap[terms[t2].p].val)
    /\ \A t \in TermsOp("match") :
           /\ Cardinality(OkBranchCalls(t)) + Cardinality(ErrBranchCalls(t)) <= 1
           /\ Settled(terms[t].p) =>
                  /\ Cardinality(OkBranchCalls(t)) = (IF ResIsOk(Observed(t).val) THEN 1 ELSE 0)
                  /\ Cardinality(ErrBranchCalls(t)) = (IF ResIsErr(Observed(t).val) THEN 1 ELSE 0)
                  /\ \A k \in OkBranchCalls(t) \cup ErrBranchCalls(t) :
                         calls[k].arg = ResPayload(Observed(t).val)

C14_Witness ==
    \E t1 \in TermsOp("isOk"), t2 \in TermsOp("isErr") :
        /\ terms[t1].obj = terms[t2].obj /\ objs[terms[t1].obj].op = "err"
        /\ Fulfilled(terms[t1].p, Bool(FALSE))
        /\ Fulfilled(terms[t2].p, Bool(TRUE))

C14_WitnessMatch ==
    \E t \in TermsOp("match") :
        /\ Settled(terms[t].p) /\ ResIsOk(Observed(t).val)
        /\ Cardinality(OkBranchCalls(t)) = 1 /\ ErrBranchCalls(t) = {}

-----------------------------------------------------------------------------
(* map, mapErr and the taps *)

Derivations(op) == {o \in 1..Len(objs) : objs[o].op = op}
\* the receiver's outcome has come through unchanged
SameAsReceiver(o) ==
    Settled(PromiseOf(o)) => Fulfilled(PromiseOf(o), Receiver(o).val)
\* the function of operator instance o ran at most once, and on this argument
RanOn(o, x) ==
    /\ Cardinality(CallsBy(objs[o].op, o)) <= 1
    /\ \A k \in CallsBy(objs[o].op, o) : calls[k].arg = x
    /\ Settled(PromiseOf(o)) => Cardinality(CallsBy(objs[o].op, o)) = 1
NeverRan(o) == CallsBy(objs[o].op, o) = {}

\* C15: map(fn) gives Ok(fn(v)) on Ok(v), and Err(e) on Err(e) without invoking
\* fn; mapErr(fn) gives Err(fn(e)) on Err(e), and Ok(v) on Ok(v) without
\* invoking fn; with the identity both give the receiver's outcome.
C15_MapsActOnOneSide ==
    /\ \A o \in Derivations("map") :
           /\ ReceiverIsErr(o) => NeverRan(o) /\ SameAsReceiver(o)
           /\ ReceiverIsOk(o) =>
                  /\ RanOn(o, ResPayload(Receiver(o).val))
                  /\ \A k \in CallsBy("map", o) :
                         /\ Settled(PromiseOf(o)) =>
                                Fulfilled(PromiseOf(o), okSync(BodyValue(calls[k].fn.body, calls[k].arg)))
                         /\ calls[k].fn.body = "id" => SameAsReceiver(o)
    /\ \A o \in Derivations("mapErr") :
           /\ ReceiverIsOk(o) => NeverRan(o) /\ SameAsReceiver(o)
           /\ ReceiverIsErr(o) =>
                  /\ RanOn(o, ResPayload(Receiver(o).val))
                  /\ \A k \in CallsBy("mapErr", o) :
                         /\ Settled(PromiseOf(o)) =>
                                Fulfilled(PromiseOf(o), errSync(BodyValue(calls[k].fn.body, calls[k].arg)))
                         /\ calls[k].fn.body = "id" => SameAsReceiver(o)

C15_Witness ==
    \E o1 \in Derivations("map"), o2 \in Derivations("mapErr") :
        /\ objs[o2].parent = o1
        /\ Fulfilled(PromiseOf(objs[o1].parent), okSync(Prim(10)))
        /\ Fulfilled(PromiseOf(o1), okSync(Prim(20)))
        /\ Fulfilled(PromiseOf(o2), okSync(Prim(20)))
        /\ Cardinality(CallsBy("map", o1)) = 1 /\ NeverRan(o2)

C15_WitnessErr ==
    \E o1 \in Derivations("mapErr"), o2 \in Derivations("map") :
        /\ objs[o2].parent = o1
        /\ Fulfilled(PromiseOf(objs[o1].parent), errSync(Prim(3)))
        /\ Fulfilled(PromiseOf(o1), errSync(Wrapped(Prim(3))))
        /\ Fulfilled(PromiseOf(o2), errSync(Wrapped(Prim(3))))
        /\ NeverRan(o2)

\* C16: andTee(fn) and orTee(fn) resolve to the receiver's outcome, variant and
\* payload, whatever fn returns; andTee invokes fn once with the payload on Ok
\* and never on Err, orTee once with the payload on Err and never on Ok.
C16_TapsAreTransparent ==
    /\ \A o \in Derivations("andTee") :
           /\ Receiver(o).st = "fulfilled" => SameAsReceiver(o)
           /\ ReceiverIsOk(o) => RanOn(o, ResPayload(Receiver(o).val))
           /\ ReceiverIsErr(o) => NeverRan(o)
    /\ \A o \in Derivations("orTee") :
           /\ Receiver(o).st = "fulfilled" => SameAsReceiver(o)
           /\ ReceiverIsErr(o) => RanOn(o, ResPayload(Receiver(o).val))
           /\ ReceiverIsOk(o) => NeverRan(o)

C16_Witness ==
    \E o1 \in Derivations("orTee"), o2 \in Derivations("andTee") :
        /\ objs[o2].parent = o1
        /\ Fulfilled(PromiseOf(objs[o1].parent), errSync(Prim(3)))
        /\ \E k \in CallsBy("orTee", o1) : calls[k].fn.tag = "err" /\ calls[k].arg = Prim(3)
        /\ Fulfilled(PromiseOf(o1), errSync(Prim(3)))
        /\ Fulfilled(PromiseOf(o2), errSync(Prim(3)))
        /\ NeverRan(o2)

C16_WitnessOk ==
    \E o \in Derivations("andTee") :
        /\ Fulfilled(PromiseOf(objs[o].parent), okSync(Prim(10)))
        /\ \E k \in CallsBy("andTee", o) : calls[k].fn.shape = "promise"
        /\ Fulfilled(PromiseOf(o), okSync(Prim(10)))

-----------------------------------------------------------------------------
(* The synchronous chain of an asynchronous one *)

RECURSIVE RootOf(_)
RootOf(o) == IF objs[o].parent = 0 THEN o ELSE RootOf(objs[o].parent)

\* the function the operator that built o was given, as far as it has shown
FnOf(o) ==
    IF NeverRan(o) THEN NoFn ELSE calls[CHOOSE k \in CallsBy(objs[o].op, o) : TRUE].fn

\* one operator of the synchronous Result, the transformer of andThen/orElse
\* returning the plain form of its outcome
SyncStep(op, fn, res) ==
    (CASE op = "map" -> ResMap(Machine, fn, 0, res)
       [] op = "mapErr" -> ResMapErr(Machine, fn, 0, res)
       [] op = "andThen" -> ResAndThen(Machine, fn, 0, res)
       [] op = "orElse" -> ResOrElse(Machine, fn, 0, res)
       [] op = "andTee" -> ResAndTee(Machine, fn, 0, res)
       [] op = "orTee" -> ResOrTee(Machine, fn, 0, res)).ret

\* the Result the same chain gives when applied to the Result toAsync was given
RECURSIVE SyncChain(_)
SyncChain(o) ==
    IF objs[o].parent = 0 THEN heap[PromiseOf(o)].val
    ELSE SyncStep(objs[o].op, FnOf(o), SyncChain(objs[o].parent))

SyncTerminal(t) ==
    IF terms[t].op = "unwrapOr" THEN ResUnwrapOr(Machine, SyncChain(terms[t].obj), terms[t].x).ret
    ELSE matchCallback(Machine, terms[t].args.ok, terms[t].args.err, 0, SyncChain(terms[t].obj)).ret

\* C17: a chain of operators applied to toAsync(result), its andThen/orElse
\* transformers handing their outcome back in an asynchronous form, resolves to
\* the Result the synchronous chain gives on result, and unwrapOr and match on
\* it resolve to the values the synchronous unwrapOr and match return.
C17_AsyncEquivalence ==
    /\ \A o \in 1..Len(objs) :
           (objs[o].held /\ objs[RootOf(o)].op = "toAsync" /\ Settled(PromiseOf(o)))
               => Fulfilled(PromiseOf(o), SyncChain(o))
    /\ \A t \in TermsOp("unwrapOr") \cup TermsOp("match") :
           (objs[RootOf(terms[t].obj)].op = "toAsync" /\ Settled(terms[t].p))
               => Fulfilled(terms[t].p, SyncTerminal(t))

C17_Witness ==
    \E t \in TermsOp("unwrapOr") :
        /\ objs[terms[t].obj].op = "andThen"
        /\ objs[objs[terms[t].obj].parent].op = "toAsync"
        /\ FnOf(terms[t].obj).shape = "resultAsync"
        /\ SyncChain(terms[t].obj) = okSync(Prim(20))
        /\ Fulfilled(PromiseOf(terms[t].obj), okSync(Prim(20)))
        /\ Fulfilled(terms[t].p, Prim(20))

C17_WitnessErr ==
    \E o1 \in Derivations("orTee"), o2 \in Derivations("orElse") :
        /\ objs[o2].parent = o1 /\ objs[objs[o1].parent].op = "toAsync"
        /\ SyncChain(o2) = errSync(Prim(9))
        /\ Fulfilled(PromiseOf(o2), errSync(Prim(9)))

-----------------------------------------------------------------------------
(* Instances over time *)

Objs == 1..Len(objs)
Resolved(o) == heap[PromiseOf(o)].st = "fulfilled" /\ IsResult(heap[PromiseOf(o)].val)

\* an instance keeps its promise, and a settled instance its state and value
StaysResolved(o) ==
    /\ objs'[o].promise = objs[o].promise
    /\ Settled(PromiseOf(o)) =>
           /\ heap'[PromiseOf(o)].st = heap[PromiseOf(o)].st
           /\ heap'[PromiseOf(o)].val = heap[PromiseOf(o)].val

\* every await of an instance that has come back has come back with its Result
ObserversAgree ==
    \A t \in TermsOp("await") :
        Settled(terms[t].p) => Resolved(terms[t].obj) /\ Fulfilled(terms[t].p, Observed(t).val)

\* C18: an instance, constructed or derived, goes from pending to resolved with
\* an Ok or an Err at most once: once resolved it keeps its variant and payload
\* in every later step, and every await of it, whenever made, gives that Result.
C18_ResolvesOnce ==
    /\ [](\A o \in Objs : Settled(PromiseOf(o)) => Resolved(o))
    /\ []ObserversAgree
    /\ [][\A o \in Objs : StaysResolved(o)]_vars

C18_Witness ==
    \E t1, t2 \in TermsOp("await") :
        /\ t1 # t2 /\ terms[t1].obj = terms[t2].obj
        /\ objs[terms[t1].obj].op = "safeTry"
        /\ \E i \in Invs : TryOf(i).kind = "rejectsLater"
        /\ terms[t1].early /\ ~terms[t2].early
        /\ Fulfilled(terms[t1].p, errSync(Wrapped(Prim(7))))
        /\ Fulfilled(terms[t2].p, errSync(Wrapped(Prim(7))))

RECURSIVE Ancestors(_)
Ancestors(o) == IF objs[o].parent = 0 THEN {} ELSE {objs[o].parent} \cup Ancestors(objs[o].parent)
OpCalls(o) == CallsBy(objs[o].op, o)

\* C19: an operator returns a new instance with a promise of its own and leaves
\* its receiver as it was: the receiver resolves to the Result its own chain
\* gives, whatever was registered on it, and of two operators branched off one
\* receiver each runs its function on the receiver's outcome and resolves to
\* what its own function gives.
C19_ReceiverUntouched ==
    /\ \A o1, o2 \in Objs : o1 # o2 => PromiseOf(o1) # PromiseOf(o2)
    /\ \A o \in Chained :
           /\ objs[o].parent \in 1..(o - 1)
           /\ \A k \in OpCalls(o) :
                  Resolved(objs[o].parent) /\ calls[k].arg = ResPayload(Receiver(o).val)
    /\ \A o \in Held : Settled(PromiseOf(o)) => Fulfilled(PromiseOf(o), SyncChain(o))

C19_Witness ==
    \E o1 \in Derivations("andThen"), o2 \in Derivations("map") :
        /\ objs[o1].parent = objs[o2].parent /\ o1 < o2
        /\ Fulfilled(PromiseOf(objs[o1].parent), okSync(Prim(10)))
        /\ Fulfilled(PromiseOf(o1), errSync(Prim(9)))
        /\ Fulfilled(PromiseOf(o2), okSync(Prim(20)))
        /\ \A k \in OpCalls(o1) \cup OpCalls(o2) : calls[k].arg = Prim(10)

\* C20: within one chain the functions run in the order of the chain: a
\* function runs only once the receiver of its operator has resolved, so after
\* every step before it has resolved and after every function before it has
\* run, also when one of those returned a promise or ResultAsync still pending.
C20_RegistrationOrder ==
    \A oj \in Chained :
        \A kj \in OpCalls(oj) :
            /\ Resolved(objs[oj].parent)
            /\ \A oi \in Ancestors(oj) :
                   /\ Resolved(oi)
                   /\ oi \in Chained => \A ki \in OpCalls(oi) : ki < kj

C20_Witness ==
    \E o1 \in Derivations("andThen"), o2 \in Chained :
        /\ objs[o2].parent = o1
        /\ \E k1 \in OpCalls(o1), k2 \in OpCalls(o2) :
               /\ k1 < k2
               /\ calls[k1].fn.shape = "later"
               /\ calls[k2].arg = BodyValue(calls[k1].fn.body, calls[k1].arg)

-----------------------------------------------------------------------------
(* Faults inside a chain *)

\* the invocations of o's function that raised
Raised(o) == {k \in OpCalls(o) : calls[k].fn.body = "raise"}
TermsAt(o) == {t \in 1..Len(terms) : terms[t].obj = o}
HasRejected(o) == heap[PromiseOf(o)].st = "rejected"

\* C21: when the function given to an operator raises, the chained instance
\* rejects with the fault raised; it never resolves to an Err, and whoever
\* awaits it or ends the chain on it gets that fault.
C21_TransformerFaultRejects ==
    \A o \in Chained :
        Raised(o) # {} =>
            /\ Rejected(PromiseOf(o), Prim(7))
            /\ \A t \in TermsAt(o) :
                   /\ ~terms[t].threw
                   /\ Settled(terms[t].p) => Rejected(terms[t].p, Prim(7))

C21_Witness ==
    \E o \in Derivations("andThen"), t \in TermsOp("unwrapOr") :
        /\ terms[t].obj = o /\ Raised(o) # {}
        /\ Fulfilled(PromiseOf(objs[o].parent), okSync(Prim(10)))
        /\ Rejected(PromiseOf(o), Prim(7))
        /\ Rejected(terms[t].p, Prim(7))

C21_WitnessTap ==
    \E o \in Derivations("orTee"), t \in TermsOp("await") :
        /\ terms[t].obj = o /\ Raised(o) # {}
        /\ Rejected(PromiseOf(o), Prim(7))
        /\ Rejected(terms[t].p, Prim(7))

\* C26: once a step of a chain has rejected, no function registered after it
\* is invoked, those of orElse, mapErr and orTee included, and every instance
\* and every terminal operation after it rejects with the same fault.
C26_RejectionPassesThrough ==
    /\ \A o \in Chained :
           HasRejected(objs[o].parent) =>
               /\ OpCalls(o) = {}
               /\ Settled(PromiseOf(o)) => Rejected(PromiseOf(o), Receiver(o).val)
    /\ \A t \in 1..Len(terms) :
           HasRejected(terms[t].obj) =>
               /\ ~terms[t].threw
               /\ OkBranchCalls(t) = {} /\ ErrBranchCalls(t) = {}
               /\ Settled(terms[t].p) => Rejected(terms[t].p, Observed(t).val)

C26_Witness ==
    \E o1 \in Derivations("andThen"), o2 \in Derivations("orElse") :
        /\ objs[o2].parent = o1
        /\ \E k \in OpCalls(o1) : calls[k].fn.shape = "rejected"
        /\ Rejected(PromiseOf(o1), Prim(8))
        /\ Rejected(PromiseOf(o2), Prim(8))
        /\ OpCalls(o2) = {}

C26_WitnessTerminal ==
    \E o \in Derivations("map"), t \in TermsOp("match") :
        /\ terms[t].obj = o /\ Raised(o) # {}
        /\ Rejected(terms[t].p, Prim(7))
        /\ OkBranchCalls(t) = {} /\ ErrBranchCalls(t) = {}

-----------------------------------------------------------------------------
(* infer *)

Inferred == {i \in Invs : invs[i].via = "infer"}
GivenOf(i) == adapters[invs[i].adapter].fn
AwaitsOf(i) == {t \in 1..Len(terms) : terms[t].obj = i}
\* what fn(args) gives: the ResultAsync or the promise built at the call,
\* which is Ok(G(args)), or for mockFn above 10 a rejection with Err(7)
AsGiven(i) ==
    /\ ~invs[i].threw
    /\ heap[invs[i].p].st # "pending"
    /\ IF GivenOf(i).body = "build"
       THEN /\ IsResultAsync(invs[i].ret)
            /\ PromiseOf(invs[i].ret[2]) = invs[i].p
            /\ Fulfilled(invs[i].p, okSync(G(invs[i].args)))
       ELSE /\ invs[i].ret = PromiseRef(invs[i].p)
            /\ IF Digits(invs[i].args) > 10
               THEN Rejected(invs[i].p, errSync(Prim(7)))
               ELSE Fulfilled(invs[i].p, okSync(G(invs[i].args)))
SameOutcome(p, q) == heap[p].st = heap[q].st /\ heap[p].val = heap[q].val

C22_WitnessResultAsync ==
    \E i \in Inferred : \E t \in AwaitsOf(i) :
        /\ GivenOf(i).body = "build" /\ invs[i].args = <<1>>
        /\ invs[i].ret = RARef(1)
        /\ Fulfilled(terms[t].p, okSync(Prim(1)))

-----------------------------------------------------------------------------
(* Registration and invocation *)

\* the invocations of operators' functions made in this step
NewCalls == {k \in 1..Len(calls') : k > Len(calls) /\ calls'[k].site \in Operators}
\* a step of the consumer's code that registers an operator
Registers == Cardinality(Chained') > Cardinality(Chained)
\* the function of an operator is invoked in a microtask, on behalf of an
\* instance the consumer already has, whose receiver has its Result
InvokedLater ==
    \A k \in NewCalls :
        /\ jobs # <<>> /\ ~inScript'
        /\ calls'[k].by \in Chained
        /\ Resolved(objs[calls'[k].by].parent)

\* C23: an operator returns its new instance without invoking the function it
\* was given, even on a receiver that is resolved already; the function is
\* invoked in a later step, a microtask, once the receiver has its Result.
C23_RegistrationNeverRunsInline ==
    /\ [][Registers => NewCalls = {} /\ inScript']_vars
    /\ [][InvokedLater]_vars
    /\ [](\A o \in Chained : OpCalls(o) # {} => Resolved(objs[o].parent))

C23_Witness ==
    \E o \in Derivations("map") :
        /\ inScript /\ objs[objs[o].parent].op = "toAsync"
        /\ ReceiverIsOk(o)
        /\ OpCalls(o) = {} /\ ~Settled(PromiseOf(o))

C23_WitnessInvoked ==
    \E o \in Derivations("andThen") :
        /\ ~inScript /\ objs[objs[o].parent].op = "toAsync"
        /\ ReceiverIsOk(o)
        /\ OpCalls(o) # {}

-----------------------------------------------------------------------------
(* A chain runs once *)

OkSide == {"map", "andThen", "andTee"}
\* the receiver's Result is on the side the operator's function is for
Applies(o) == IF objs[o].op \in OkSide THEN ReceiverIsOk(o) ELSE ReceiverIsErr(o)
Consumers(o) == {t \in 1..Len(terms) : terms[t].obj = o}
Children(o) == {c \in Chained : objs[c].parent = o}

\* C25: the function of a chained instance is invoked at most once, however
\* many awaits, terminal operations and operators are attached to the instance;
\* it is invoked once the receiver has its Result, with no consumer at all;
\* and every await of the instance gives the one Result it resolved to.
C25_RunsOnceEagerly ==
    \A o \in Chained :
        /\ Cardinality(OpCalls(o)) <= 1
        /\ jobs = <<>> /\ Resolved(objs[o].parent) =>
               Cardinality(OpCalls(o)) = IF Applies(o) THEN 1 ELSE 0
        /\ \A t \in Consumers(o) :
               terms[t].op = "await" /\ Settled(terms[t].p) =>
                   /\ Resolved(o)
                   /\ Fulfilled(terms[t].p, heap[PromiseOf(o)].val)

C25_Witness ==
    \E o \in Derivations("andThen") :
        /\ Cardinality(OpCalls(o)) = 1
        /\ \E t1, t2 \in Consumers(o) :
               /\ t1 # t2
               /\ terms[t1].op = "await" /\ terms[t2].op = "await"
               /\ Fulfilled(terms[t1].p, okSync(Prim(20)))
               /\ Fulfilled(terms[t2].p, okSync(Prim(20)))

C25_WitnessNoConsumer ==
    \E o \in Derivations("orTee") :
        /\ Consumers(o) = {} /\ Children(o) = {}
        /\ jobs = <<>> /\ ReceiverIsErr(o)
        /\ Cardinality(OpCalls(o)) = 1 /\ Resolved(o)

C25_WitnessOperators ==
    \E o \in Derivations("map") :
        /\ Children(o) # {} /\ Consumers(o) # {}
        /\ Cardinality(OpCalls(o)) = 1
        /\ \A c \in Children(o) : Settled(PromiseOf(c))

-----------------------------------------------------------------------------
(* Liveness of chains *)

AllResolved == \A o \in Objs : Resolved(o)
AllSettled == \A t \in 1..Len(terms) : ~terms[t].threw /\ Settled(terms[t].p)

\* C24: when the root computation settles and every function returns something
\* that settles to a Result, every instance of the chain eventually resolves
\* to a Result and every terminal operation called on it eventually settles:
\* whatever exists at some point is resolved, or settled, at a later point.
C24_ChainsComplete ==
    /\ []<>AllResolved
    /\ []<>AllSettled

C24_Witness ==
    /\ AllResolved /\ AllSettled
    /\ \E i \in Invs : TryOf(i).kind = "rejectsLater"
    /\ \E o \in Derivations("orElse") :
           /\ \E k \in OpCalls(o) : calls[k].fn.shape \in {"later", "laterAsync"}
           /\ \E t \in TermsOp("unwrap") : terms[t].obj = o

-----------------------------------------------------------------------------
(* The transport wrapper *)

\* the Result a call of the wrapper has to give for what the host did
AsReplied(i, res) ==
    IF invs[i].reply.fails THEN res = errSync(invs[i].reply.fault)
    ELSE /\ ResIsOk(res)
         /\ invs[i].via = "safeFetch" =>
                \E s \in 1..Len(responses) :
                    /\ ResPayload(res) = SafeResponseRef(s)
                    /\ status(responses, s) = invs[i].reply.status
                    /\ okFlag(responses, s) = (invs[i].reply.status \in 200..299)

\* C27: safeFetch and the body decoders of SafeResponse never throw and never
\* reject: each call returns a ResultAsync, which resolves to Ok (for safeFetch
\* the SafeResponse of the reply, whatever its status) when the host call
\* succeeds and to Err(fault) when it fails.
C27_TransportFaultsBecomeFailures ==
    \A i \in Invs :
        /\ ~invs[i].threw
        /\ IsResultAsync(invs[i].ret)
        /\ Settled(PromiseOf(invs[i].ret[2])) =>
               /\ Resolved(invs[i].ret[2])
               /\ AsReplied(i, heap[PromiseOf(invs[i].ret[2])].val)

====
